---------------------------- MODULE Spec2Model ----------------------------
(***************************************************************************)
(* A model of the csp crate (src/src/lib.rs): the CSP policy container,    *)
(* its append operations and the Display implementations that render a     *)
(* policy to the Content-Security-Policy header value.                     *)
(*                                                                         *)
(* Text is modelled character by character: a string is a sequence of      *)
(* one-character strings, so concatenation, separators and empty arguments *)
(* are computed, not assumed.                                              *)
(***************************************************************************)
EXTENDS Integers, Sequences, FiniteSets, TLC

(* Bounds of the model. *)
MaxItems == 2

MaxDirectives == 3

(***************************************************************************)
(* Values.  Every element of a collection is a record [tag, a, b]: tag is  *)
(* the enum variant (or "Str"/"Plugin" for the &str and (&str, &str)       *)
(* elements), a and b are the strings the variant carries.                 *)
(***************************************************************************)
Item(tag, a, b) == [tag |-> tag, a |-> a, b |-> b]

(* Caller-supplied &str values: empty, plain, and one with a quote, a     *)
(* space and a semicolon.                                                  *)
PlainStr == <<"x">>

OddStr == <<"'", " ", ";">>

Strs == {<<>>, PlainStr, OddStr}

SourceKeywords ==
  {"Self_", "UnsafeEval", "WasmUnsafeEval", "UnsafeHashes", "UnsafeInline",
   "StrictDynamic", "ReportSample"}

Source ==
  {Item(t, <<>>, <<>>) : t \in SourceKeywords}
    \cup {Item(t, s, <<>>) : t \in {"Host", "Scheme", "Nonce"}, s \in Strs}
    \cup {Item("Hash", s, t) : s \in Strs, t \in Strs}

SandboxAllow ==
  {Item(t, <<>>, <<>>) : t \in
    {"DownloadsWithoutUserActivation", "Forms", "Modals", "OrientationLock",
     "PointerLock", "Popups", "PopupsToEscapeSandbox", "Presentation",
     "SameOrigin", "Scripts", "StorageAccessByUserActivation",
     "TopNavigation", "TopNavigationByUserActivation"}}

SriFor == {Item(t, <<>>, <<>>) : t \in {"Script", "Style", "ScriptStyle"}}

Str(s) == Item("Str", s, <<>>)

SourcesKinds ==
  {"BaseUri", "ChildSrc", "ConnectSrc", "DefaultSrc", "FontSrc", "FormAction",
   "FrameAncestors", "FrameSrc", "ImgSrc", "ManifestSrc", "MediaSrc",
   "NavigateTo", "ObjectSrc", "PrefetchSrc", "ScriptSrc", "ScriptSrcAttr",
   "ScriptSrcElem", "StyleSrc", "StyleSrcAttr", "StyleSrcElem", "WorkerSrc"}

BareKinds == {"BlockAllMixedContent", "UpgradeInsecureRequests"}

DirectiveKinds ==
  SourcesKinds \cup BareKinds
    \cup {"PluginTypes", "ReportTo", "ReportUri", "RequireSriFor", "Sandbox",
          "TrustedTypes"}

Directive(kind, arg) == [kind |-> kind, arg |-> arg]

(***************************************************************************)
(* fmt::Result together with the text written to the Formatter so far.     *)
(* status is "Ok", "Err" (fmt::Error returned) or "Panic" (the call        *)
(* unwinds and returns nothing).                                           *)
(***************************************************************************)
Ok(text) == [status |-> "Ok", out |-> text]

Panic == [status |-> "Panic", out |-> <<>>]

(* r1 followed by r2 on the same Formatter; a failure of r1 ends the call  *)
(* (the `?` operator, or the unwinding of a panic).                        *)
Then(r1, r2) ==
  IF r1.status # "Ok" THEN r1
  ELSE [status |-> r2.status, out |-> r1.out \o r2.out]

(* A `for` loop of writes, each ended by `?`. *)
RECURSIVE ForEach(_, _)
ForEach(rs, i) ==
  IF i > Len(rs) THEN Ok(<<>>) ELSE Then(rs[i], ForEach(rs, i + 1))

(* The pattern every list in lib.rs is written with:                      *)
(*   for x in &v[0..v.len() - 1] { write!(fmt, "{}<sep>", x)?; }           *)
(*   let last = &v[v.len() - 1]; write!(fmt, "{}", last)                   *)
(* rs[i] is the rendering of v[i].  At len 0 the usize subtraction         *)
(* overflows: a panic with overflow checks, and without them the end of    *)
(* the range wraps to usize::MAX, past the end of the slice: a panic too.  *)
WriteJoined(rs, sep) ==
  IF Len(rs) = 0 THEN Panic
  ELSE Then(ForEach([i \in 1..(Len(rs) - 1) |-> Then(rs[i], Ok(sep))], 1),
            rs[Len(rs)])

(***************************************************************************)
(* The identifier of each enum variant, letter by letter (Self_ without    *)
(* the underscore that only avoids the keyword), and its kebab-case form:  *)
(* lower case, with a hyphen before every capital but the first.           *)
(***************************************************************************)
VariantChars(tag) ==
  CASE tag = "BaseUri" -> <<"B", "a", "s", "e", "U", "r", "i">>
    [] tag = "BlockAllMixedContent" -> <<"B", "l", "o", "c", "k", "A", "l", "l", "M", "i", "x", "e", "d", "C", "o", "n", "t", "e", "n", "t">>
    [] tag = "ChildSrc" -> <<"C", "h", "i", "l", "d", "S", "r", "c">>
    [] tag = "ConnectSrc" -> <<"C", "o", "n", "n", "e", "c", "t", "S", "r", "c">>
    [] tag = "DefaultSrc" -> <<"D", "e", "f", "a", "u", "l", "t", "S", "r", "c">>
    [] tag = "FontSrc" -> <<"F", "o", "n", "t", "S", "r", "c">>
    [] tag = "FormAction" -> <<"F", "o", "r", "m", "A", "c", "t", "i", "o", "n">>
    [] tag = "FrameAncestors" -> <<"F", "r", "a", "m", "e", "A", "n", "c", "e", "s", "t", "o", "r", "s">>
    [] tag = "FrameSrc" -> <<"F", "r", "a", "m", "e", "S", "r", "c">>
    [] tag = "ImgSrc" -> <<"I", "m", "g", "S", "r", "c">>
    [] tag = "ManifestSrc" -> <<"M", "a", "n", "i", "f", "e", "s", "t", "S", "r", "c">>
    [] tag = "MediaSrc" -> <<"M", "e", "d", "i", "a", "S", "r", "c">>
    [] tag = "NavigateTo" -> <<"N", "a", "v", "i", "g", "a", "t", "e", "T", "o">>
    [] tag = "ObjectSrc" -> <<"O", "b", "j", "e", "c", "t", "S", "r", "c">>
    [] tag = "PluginTypes" -> <<"P", "l", "u", "g", "i", "n", "T", "y", "p", "e", "s">>
    [] tag = "PrefetchSrc" -> <<"P", "r", "e", "f", "e", "t", "c", "h", "S", "r", "c">>
    [] tag = "ReportTo" -> <<"R", "e", "p", "o", "r", "t", "T", "o">>
    [] tag = "ReportUri" -> <<"R", "e", "p", "o", "r", "t", "U", "r", "i">>
    [] tag = "RequireSriFor" -> <<"R", "e", "q", "u", "i", "r", "e", "S", "r", "i", "F", "o", "r">>
    [] tag = "Sandbox" -> <<"S", "a", "n", "d", "b", "o", "x">>
    [] tag = "ScriptSrc" -> <<"S", "c", "r", "i", "p", "t", "S", "r", "c">>
    [] tag = "ScriptSrcAttr" -> <<"S", "c", "r", "i", "p", "t", "S", "r", "c", "A", "t", "t", "r">>
    [] tag = "ScriptSrcElem" -> <<"S", "c", "r", "i", "p", "t", "S", "r", "c", "E", "l", "e", "m">>
    [] tag = "StyleSrc" -> <<"S", "t", "y", "l", "e", "S", "r", "c">>
    [] tag = "StyleSrcAttr" -> <<"S", "t", "y", "l", "e", "S", "r", "c", "A", "t", "t", "r">>
    [] tag = "StyleSrcElem" -> <<"S", "t", "y", "l", "e", "S", "r", "c", "E", "l", "e", "m">>
    [] tag = "TrustedTypes" -> <<"T", "r", "u", "s", "t", "e", "d", "T", "y", "p", "e", "s">>
    [] tag = "UpgradeInsecureRequests" -> <<"U", "p", "g", "r", "a", "d", "e", "I", "n", "s", "e", "c", "u", "r", "e", "R", "e", "q", "u", "e", "s", "t", "s">>
    [] tag = "WorkerSrc" -> <<"W", "o", "r", "k", "e", "r", "S", "r", "c">>
    [] tag = "Self_" -> <<"S", "e", "l", "f">>
    [] tag = "UnsafeEval" -> <<"U", "n", "s", "a", "f", "e", "E", "v", "a", "l">>
    [] tag = "WasmUnsafeEval" -> <<"W", "a", "s", "m", "U", "n", "s", "a", "f", "e", "E", "v", "a", "l">>
    [] tag = "UnsafeHashes" -> <<"U", "n", "s", "a", "f", "e", "H", "a", "s", "h", "e", "s">>
    [] tag = "UnsafeInline" -> <<"U", "n", "s", "a", "f", "e", "I", "n", "l", "i", "n", "e">>
    [] tag = "StrictDynamic" -> <<"S", "t", "r", "i", "c", "t", "D", "y", "n", "a", "m", "i", "c">>
    [] tag = "ReportSample" -> <<"R", "e", "p", "o", "r", "t", "S", "a", "m", "p", "l", "e">>
    [] tag = "DownloadsWithoutUserActivation" -> <<"D", "o", "w", "n", "l", "o", "a", "d", "s", "W", "i", "t", "h", "o", "u", "t", "U", "s", "e", "r", "A", "c", "t", "i", "v", "a", "t", "i", "o", "n">>
    [] tag = "Forms" -> <<"F", "o", "r", "m", "s">>
    [] tag = "Modals" -> <<"M", "o", "d", "a", "l", "s">>
    [] tag = "OrientationLock" -> <<"O", "r", "i", "e", "n", "t", "a", "t", "i", "o", "n", "L", "o", "c", "k">>
    [] tag = "PointerLock" -> <<"P", "o", "i", "n", "t", "e", "r", "L", "o", "c", "k">>
    [] tag = "Popups" -> <<"P", "o", "p", "u", "p", "s">>
    [] tag = "PopupsToEscapeSandbox" -> <<"P", "o", "p", "u", "p", "s", "T", "o", "E", "s", "c", "a", "p", "e", "S", "a", "n", "d", "b", "o", "x">>
    [] tag = "Presentation" -> <<"P", "r", "e", "s", "e", "n", "t", "a", "t", "i", "o", "n">>
    [] tag = "SameOrigin" -> <<"S", "a", "m", "e", "O", "r", "i", "g", "i", "n">>
    [] tag = "Scripts" -> <<"S", "c", "r", "i", "p", "t", "s">>
    [] tag = "StorageAccessByUserActivation" -> <<"S", "t", "o", "r", "a", "g", "e", "A", "c", "c", "e", "s", "s", "B", "y", "U", "s", "e", "r", "A", "c", "t", "i", "v", "a", "t", "i", "o", "n">>
    [] tag = "TopNavigation" -> <<"T", "o", "p", "N", "a", "v", "i", "g", "a", "t", "i", "o", "n">>
    [] tag = "TopNavigationByUserActivation" -> <<"T", "o", "p", "N", "a", "v", "i", "g", "a", "t", "i", "o", "n", "B", "y", "U", "s", "e", "r", "A", "c", "t", "i", "v", "a", "t", "i", "o", "n">>

UpperCase == {"A", "B", "C", "D", "E", "F", "G", "H", "I", "J", "K", "L", "M", "N",
              "O", "P", "Q", "R", "S", "T", "U", "V", "W", "X", "Y", "Z"}

Lower(c) ==
  CASE c = "A" -> "a"
    [] c = "B" -> "b"
    [] c = "C" -> "c"
    [] c = "D" -> "d"
    [] c = "E" -> "e"
    [] c = "F" -> "f"
    [] c = "G" -> "g"
    [] c = "H" -> "h"
    [] c = "I" -> "i"
    [] c = "J" -> "j"
    [] c = "K" -> "k"
    [] c = "L" -> "l"
    [] c = "M" -> "m"
    [] c = "N" -> "n"
    [] c = "O" -> "o"
    [] c = "P" -> "p"
    [] c = "Q" -> "q"
    [] c = "R" -> "r"
    [] c = "S" -> "s"
    [] c = "T" -> "t"
    [] c = "U" -> "u"
    [] c = "V" -> "v"
    [] c = "W" -> "w"
    [] c = "X" -> "x"
    [] c = "Y" -> "y"
    [] c = "Z" -> "z"
    [] OTHER -> c

RECURSIVE KebabFrom(_, _)
KebabFrom(cs, i) ==
  IF i > Len(cs) THEN <<>>
  ELSE (IF cs[i] \in UpperCase
        THEN (IF i > 1 THEN <<"-">> ELSE <<>>) \o <<Lower(cs[i])>>
        ELSE <<cs[i]>>) \o KebabFrom(cs, i + 1)

Kebab(tag) == KebabFrom(VariantChars(tag), 1)

(* Display for Source with the colon after a scheme left out. *)
Source_fmt_bare_scheme(s) ==
  CASE s.tag = "Host" -> Ok(s.a)
    [] s.tag = "Scheme" -> Ok(s.a)
    [] s.tag = "Nonce" -> Ok(<<"'", "n", "o", "n", "c", "e", "-">> \o s.a \o <<"'">>)
    [] s.tag = "Hash" -> Ok(<<"'">> \o s.a \o <<"-">> \o s.b \o <<"'">>)
    [] OTHER -> Ok(<<"'">> \o Kebab(s.tag) \o <<"'">>)

Source_fmt(s) ==
  CASE s.tag = "Self_" -> Ok(<<"'", "s", "e", "l", "f", "'">>)
    [] s.tag = "UnsafeEval" -> Ok(<<"'", "u", "n", "s", "a", "f", "e", "-", "e", "v", "a", "l", "'">>)
    [] s.tag = "WasmUnsafeEval" -> Ok(<<"'", "w", "a", "s", "m", "-", "u", "n", "s", "a", "f", "e", "-", "e", "v", "a", "l", "'">>)
    [] s.tag = "UnsafeHashes" -> Ok(<<"'", "u", "n", "s", "a", "f", "e", "-", "h", "a", "s", "h", "e", "s", "'">>)
    [] s.tag = "UnsafeInline" -> Ok(<<"'", "u", "n", "s", "a", "f", "e", "-", "i", "n", "l", "i", "n", "e", "'">>)
    [] s.tag = "StrictDynamic" -> Ok(<<"'", "s", "t", "r", "i", "c", "t", "-", "d", "y", "n", "a", "m", "i", "c", "'">>)
    [] s.tag = "ReportSample" -> Ok(<<"'", "r", "e", "p", "o", "r", "t", "-", "s", "a", "m", "p", "l", "e", "'">>)
    [] s.tag = "Host" -> Ok(s.a)
    [] s.tag = "Scheme" -> Ok(s.a \o <<":">>)
    [] s.tag = "Nonce" -> Ok(<<"'", "n", "o", "n", "c", "e", "-">> \o s.a \o <<"'">>)
    [] s.tag = "Hash" -> Ok(<<"'">> \o s.a \o <<"-">> \o s.b \o <<"'">>)

(* Display for SandboxAllow with two variants sharing one text. *)
SandboxAllow_fmt_merged(s) ==
  IF s.tag = "TopNavigationByUserActivation"
  THEN Ok(<<"a", "l", "l", "o", "w", "-">> \o Kebab("TopNavigation"))
  ELSE Ok(<<"a", "l", "l", "o", "w", "-">> \o Kebab(s.tag))

SandboxAllow_fmt(s) ==
  CASE s.tag = "DownloadsWithoutUserActivation" -> Ok(<<"a", "l", "l", "o", "w", "-", "d", "o", "w", "n", "l", "o", "a", "d", "s", "-", "w", "i", "t", "h", "o", "u", "t", "-", "u", "s", "e", "r", "-", "a", "c", "t", "i", "v", "a", "t", "i", "o", "n">>)
    [] s.tag = "Forms" -> Ok(<<"a", "l", "l", "o", "w", "-", "f", "o", "r", "m", "s">>)
    [] s.tag = "Modals" -> Ok(<<"a", "l", "l", "o", "w", "-", "m", "o", "d", "a", "l", "s">>)
    [] s.tag = "OrientationLock" -> Ok(<<"a", "l", "l", "o", "w", "-", "o", "r", "i", "e", "n", "t", "a", "t", "i", "o", "n", "-", "l", "o", "c", "k">>)
    [] s.tag = "PointerLock" -> Ok(<<"a", "l", "l", "o", "w", "-", "p", "o", "i", "n", "t", "e", "r", "-", "l", "o", "c", "k">>)
    [] s.tag = "Popups" -> Ok(<<"a", "l", "l", "o", "w", "-", "p", "o", "p", "u", "p", "s">>)
    [] s.tag = "PopupsToEscapeSandbox" -> Ok(<<"a", "l", "l", "o", "w", "-", "p", "o", "p", "u", "p", "s", "-", "t", "o", "-", "e", "s", "c", "a", "p", "e", "-", "s", "a", "n", "d", "b", "o", "x">>)
    [] s.tag = "Presentation" -> Ok(<<"a", "l", "l", "o", "w", "-", "p", "r", "e", "s", "e", "n", "t", "a", "t", "i", "o", "n">>)
    [] s.tag = "SameOrigin" -> Ok(<<"a", "l", "l", "o", "w", "-", "s", "a", "m", "e", "-", "o", "r", "i", "g", "i", "n">>)
    [] s.tag = "Scripts" -> Ok(<<"a", "l", "l", "o", "w", "-", "s", "c", "r", "i", "p", "t", "s">>)
    [] s.tag = "StorageAccessByUserActivation" -> Ok(<<"a", "l", "l", "o", "w", "-", "s", "t", "o", "r", "a", "g", "e", "-", "a", "c", "c", "e", "s", "s", "-", "b", "y", "-", "u", "s", "e", "r", "-", "a", "c", "t", "i", "v", "a", "t", "i", "o", "n">>)
    [] s.tag = "TopNavigation" -> Ok(<<"a", "l", "l", "o", "w", "-", "t", "o", "p", "-", "n", "a", "v", "i", "g", "a", "t", "i", "o", "n">>)
    [] s.tag = "TopNavigationByUserActivation" -> Ok(<<"a", "l", "l", "o", "w", "-", "t", "o", "p", "-", "n", "a", "v", "i", "g", "a", "t", "i", "o", "n", "-", "b", "y", "-", "u", "s", "e", "r", "-", "a", "c", "t", "i", "v", "a", "t", "i", "o", "n">>)

(* Display for SriFor with ScriptStyle joined by a hyphen. *)
SriFor_fmt_hyphen(s) ==
  CASE s.tag = "Script" -> Ok(<<"s", "c", "r", "i", "p", "t">>)
    [] s.tag = "Style" -> Ok(<<"s", "t", "y", "l", "e">>)
    [] s.tag = "ScriptStyle" -> Ok(<<"s", "c", "r", "i", "p", "t", "-", "s", "t", "y", "l", "e">>)

SriFor_fmt(s) ==
  CASE s.tag = "Script" -> Ok(<<"s", "c", "r", "i", "p", "t">>)
    [] s.tag = "Style" -> Ok(<<"s", "t", "y", "l", "e">>)
    [] s.tag = "ScriptStyle" -> Ok(<<"s", "c", "r", "i", "p", "t", " ", "s", "t", "y", "l", "e">>)

(* Directive names with script-src-elem written as script-src. *)
Directive_name_merged(kind) ==
  IF kind = "ScriptSrcElem" THEN Kebab("ScriptSrc") ELSE Kebab(kind)

(* Directive names written with underscores in place of hyphens. *)
Directive_name_snake(kind) ==
  [i \in 1..Len(Kebab(kind)) |->
     IF Kebab(kind)[i] = "-" THEN "_" ELSE Kebab(kind)[i]]

(* Directive names with a space written after an argument-less name too. *)
Directive_name_padded(kind) ==
  Kebab(kind) \o (IF kind \in BareKinds THEN <<" ">> ELSE <<>>)

(* The name each match arm of Display for Directive writes. *)
Directive_name(kind) ==
  CASE kind = "BaseUri" -> <<"b", "a", "s", "e", "-", "u", "r", "i">>
    [] kind = "BlockAllMixedContent" -> <<"b", "l", "o", "c", "k", "-", "a", "l", "l", "-", "m", "i", "x", "e", "d", "-", "c", "o", "n", "t", "e", "n", "t">>
    [] kind = "ChildSrc" -> <<"c", "h", "i", "l", "d", "-", "s", "r", "c">>
    [] kind = "ConnectSrc" -> <<"c", "o", "n", "n", "e", "c", "t", "-", "s", "r", "c">>
    [] kind = "DefaultSrc" -> <<"d", "e", "f", "a", "u", "l", "t", "-", "s", "r", "c">>
    [] kind = "FontSrc" -> <<"f", "o", "n", "t", "-", "s", "r", "c">>
    [] kind = "FormAction" -> <<"f", "o", "r", "m", "-", "a", "c", "t", "i", "o", "n">>
    [] kind = "FrameAncestors" -> <<"f", "r", "a", "m", "e", "-", "a", "n", "c", "e", "s", "t", "o", "r", "s">>
    [] kind = "FrameSrc" -> <<"f", "r", "a", "m", "e", "-", "s", "r", "c">>
    [] kind = "ImgSrc" -> <<"i", "m", "g", "-", "s", "r", "c">>
    [] kind = "ManifestSrc" -> <<"m", "a", "n", "i", "f", "e", "s", "t", "-", "s", "r", "c">>
    [] kind = "MediaSrc" -> <<"m", "e", "d", "i", "a", "-", "s", "r", "c">>
    [] kind = "NavigateTo" -> <<"n", "a", "v", "i", "g", "a", "t", "e", "-", "t", "o">>
    [] kind = "ObjectSrc" -> <<"o", "b", "j", "e", "c", "t", "-", "s", "r", "c">>
    [] kind = "PluginTypes" -> <<"p", "l", "u", "g", "i", "n", "-", "t", "y", "p", "e", "s">>
    [] kind = "PrefetchSrc" -> <<"p", "r", "e", "f", "e", "t", "c", "h", "-", "s", "r", "c">>
    [] kind = "ReportTo" -> <<"r", "e", "p", "o", "r", "t", "-", "t", "o">>
    [] kind = "ReportUri" -> <<"r", "e", "p", "o", "r", "t", "-", "u", "r", "i">>
    [] kind = "RequireSriFor" -> <<"r", "e", "q", "u", "i", "r", "e", "-", "s", "r", "i", "-", "f", "o", "r">>
    [] kind = "Sandbox" -> <<"s", "a", "n", "d", "b", "o", "x">>
    [] kind = "ScriptSrc" -> <<"s", "c", "r", "i", "p", "t", "-", "s", "r", "c">>
    [] kind = "ScriptSrcAttr" -> <<"s", "c", "r", "i", "p", "t", "-", "s", "r", "c", "-", "a", "t", "t", "r">>
    [] kind = "ScriptSrcElem" -> <<"s", "c", "r", "i", "p", "t", "-", "s", "r", "c", "-", "e", "l", "e", "m">>
    [] kind = "StyleSrc" -> <<"s", "t", "y", "l", "e", "-", "s", "r", "c">>
    [] kind = "StyleSrcAttr" -> <<"s", "t", "y", "l", "e", "-", "s", "r", "c", "-", "a", "t", "t", "r">>
    [] kind = "StyleSrcElem" -> <<"s", "t", "y", "l", "e", "-", "s", "r", "c", "-", "e", "l", "e", "m">>
    [] kind = "TrustedTypes" -> <<"t", "r", "u", "s", "t", "e", "d", "-", "t", "y", "p", "e", "s">>
    [] kind = "UpgradeInsecureRequests" -> <<"u", "p", "g", "r", "a", "d", "e", "-", "i", "n", "s", "e", "c", "u", "r", "e", "-", "r", "e", "q", "u", "e", "s", "t", "s">>
    [] kind = "WorkerSrc" -> <<"w", "o", "r", "k", "e", "r", "-", "s", "r", "c">>

NoneLit == <<"'", "n", "o", "n", "e", "'">>


(* Sources_fmt without its emptiness test, as the ReportUri arm is written. *)
Sources_fmt_unchecked(v) ==
  WriteJoined([i \in 1..Len(v) |-> Source_fmt(v[i])], <<" ">>)

(* Sources_fmt writing nothing for an empty list, as Plugins does. *)
Sources_fmt_blank(v) ==
  IF Len(v) = 0 THEN Ok(<<>>)
  ELSE WriteJoined([i \in 1..Len(v) |-> Source_fmt(v[i])], <<" ">>)

(* Sources_fmt writing the separator after the last source too. *)
Sources_fmt_trailing(v) ==
  IF Len(v) = 0 THEN Ok(NoneLit)
  ELSE ForEach([i \in 1..Len(v) |-> Then(Source_fmt(v[i]), Ok(<<" ">>))], 1)

(* Display for Sources. *)
Sources_fmt(v) ==
  IF Len(v) = 0 THEN Ok(NoneLit)
  ELSE WriteJoined([i \in 1..Len(v) |-> Source_fmt(v[i])], <<" ">>)

(* A pair written subtype first. *)
Plugin_fmt_swapped(p) == Ok(p.b \o <<"/">> \o p.a)

(* One ("type", "subtype") pair as Display for Plugins writes it. *)
Plugin_fmt(p) == Ok(p.a \o <<"/">> \o p.b)

(* Display for Plugins. *)
Plugins_fmt(v) ==
  IF Len(v) = 0 THEN Ok(<<>>)
  ELSE WriteJoined([i \in 1..Len(v) |-> Plugin_fmt(v[i])], <<" ">>)

(* Display for SandboxAllowedList. *)
SandboxAllowedList_fmt(v) ==
  IF Len(v) = 0 THEN Ok(<<>>)
  ELSE WriteJoined([i \in 1..Len(v) |-> SandboxAllow_fmt(v[i])], <<" ">>)

(* The ReportUri arm of Display for Directive: no emptiness test. *)
ReportUri_fmt(v) ==
  Then(Ok(Directive_name("ReportUri") \o <<" ">>),
       WriteJoined([i \in 1..Len(v) |-> Ok(v[i].a)], <<" ">>))

(* The TrustedTypes arm without the write of the last element. *)
TrustedTypes_fmt_no_last(v) ==
  Then(Ok(Directive_name("TrustedTypes") \o <<" ">>),
       IF Len(v) = 0 THEN Panic
       ELSE ForEach([i \in 1..(Len(v) - 1) |-> Ok(v[i].a \o <<" ">>)], 1))

(* The TrustedTypes arm of Display for Directive: no emptiness test. *)
TrustedTypes_fmt(v) ==
  Then(Ok(Directive_name("TrustedTypes") \o <<" ">>),
       WriteJoined([i \in 1..Len(v) |-> Ok(v[i].a)], <<" ">>))

(* Directive_fmt with a ReportTo arm that leaves the space out when the    *)
(* string is empty.                                                        *)
Directive_fmt_report_to_trimmed(d) ==
  CASE d.kind \in SourcesKinds ->
         Then(Ok(Directive_name(d.kind) \o <<" ">>), Sources_fmt(d.arg))
    [] d.kind \in BareKinds -> Ok(Directive_name(d.kind))
    [] d.kind = "PluginTypes" ->
         Then(Ok(Directive_name(d.kind) \o <<" ">>), Plugins_fmt(d.arg))
    [] d.kind = "ReportTo" ->
         IF d.arg[1].a = <<>> THEN Ok(Directive_name(d.kind))
         ELSE Ok(Directive_name(d.kind) \o <<" ">> \o d.arg[1].a)
    [] d.kind = "ReportUri" -> ReportUri_fmt(d.arg)
    [] d.kind = "RequireSriFor" ->
         Then(Ok(Directive_name(d.kind) \o <<" ">>), SriFor_fmt(d.arg[1]))
    [] d.kind = "Sandbox" ->
         IF Len(d.arg) = 0 THEN Ok(Directive_name(d.kind))
         ELSE Then(Ok(Directive_name(d.kind) \o <<" ">>),
                   SandboxAllowedList_fmt(d.arg))
    [] d.kind = "TrustedTypes" -> TrustedTypes_fmt(d.arg)

(* Directive_fmt with a Sandbox arm that always writes "sandbox {}". *)
Directive_fmt_sandbox_unchecked(d) ==
  CASE d.kind \in SourcesKinds ->
         Then(Ok(Directive_name(d.kind) \o <<" ">>), Sources_fmt(d.arg))
    [] d.kind \in BareKinds -> Ok(Directive_name(d.kind))
    [] d.kind = "PluginTypes" ->
         Then(Ok(Directive_name(d.kind) \o <<" ">>), Plugins_fmt(d.arg))
    [] d.kind = "ReportTo" -> Ok(Directive_name(d.kind) \o <<" ">> \o d.arg[1].a)
    [] d.kind = "ReportUri" -> ReportUri_fmt(d.arg)
    [] d.kind = "RequireSriFor" ->
         Then(Ok(Directive_name(d.kind) \o <<" ">>), SriFor_fmt(d.arg[1]))
    [] d.kind = "Sandbox" ->
         Then(Ok(Directive_name(d.kind) \o <<" ">>),
              SandboxAllowedList_fmt(d.arg))
    [] d.kind = "TrustedTypes" -> TrustedTypes_fmt(d.arg)

(* Display for Directive. *)
Directive_fmt(d) ==
  CASE d.kind \in SourcesKinds ->
         Then(Ok(Directive_name(d.kind) \o <<" ">>), Sources_fmt(d.arg))
    [] d.kind \in BareKinds -> Ok(Directive_name(d.kind))
    [] d.kind = "PluginTypes" ->
         Then(Ok(Directive_name(d.kind) \o <<" ">>), Plugins_fmt(d.arg))
    [] d.kind = "ReportTo" -> Ok(Directive_name(d.kind) \o <<" ">> \o d.arg[1].a)
    [] d.kind = "ReportUri" -> ReportUri_fmt(d.arg)
    [] d.kind = "RequireSriFor" ->
         Then(Ok(Directive_name(d.kind) \o <<" ">>), SriFor_fmt(d.arg[1]))
    [] d.kind = "Sandbox" ->
         IF Len(d.arg) = 0 THEN Ok(Directive_name(d.kind))
         ELSE Then(Ok(Directive_name(d.kind) \o <<" ">>),
                   SandboxAllowedList_fmt(d.arg))
    [] d.kind = "TrustedTypes" -> TrustedTypes_fmt(d.arg)

(* CSP_fmt with the separator written before every directive. *)
CSP_fmt_leading(self) ==
  ForEach([i \in 1..Len(self) |-> Then(Ok(<<";", " ">>), Directive_fmt(self[i]))], 1)

(* CSP_fmt with the separator written after the last directive too. *)
CSP_fmt_trailing(self) ==
  ForEach([i \in 1..Len(self) |-> Then(Directive_fmt(self[i]), Ok(<<";", " ">>))], 1)

(* Display for CSP. *)
CSP_fmt(self) ==
  IF Len(self) = 0 THEN Ok(<<>>)
  ELSE WriteJoined([i \in 1..Len(self) |-> Directive_fmt(self[i])], <<";", " ">>)

(* CSP::new and CSP::new_with. *)
CSP_new == <<>>

(* new_with written as new(): the directive is dropped. *)
CSP_new_with_default(directive) == CSP_new

CSP_new_with(directive) == <<directive>>

(* Into<CSP> for Directive. *)
Directive_into(self) == CSP_new_with(self)

(* An append that drops the earlier directives of the kind first. *)
CSP_push_borrowed_moving(self, directive) ==
  Append(SelectSeq(self, LAMBDA d : d.kind # directive.kind), directive)

(* CSP::push_borrowed, and add_borrowed which calls it. *)
CSP_push_borrowed(self, directive) == Append(self, directive)

CSP_add_borrowed(self, directive) == CSP_push_borrowed(self, directive)

(* An append that overwrites a directive of the same kind in place. *)
CSP_push_replacing(self, directive) ==
  IF \E i \in 1..Len(self) : self[i].kind = directive.kind
  THEN [i \in 1..Len(self) |->
          IF self[i].kind = directive.kind THEN directive ELSE self[i]]
  ELSE Append(self, directive)

(* An append at the front. *)
CSP_push_front(self, directive) == <<directive>> \o self

(* CSP::push, and add which calls it. *)
CSP_push(self, directive) == Append(self, directive)

CSP_add(self, directive) == CSP_push(self, directive)

(***************************************************************************)
(* The directives a caller builds.  Collections hold at most MaxItems      *)
(* elements drawn from a few values of each element type.                  *)
(***************************************************************************)
RECURSIVE SeqsOfLen(_, _)
SeqsOfLen(S, n) ==
  IF n = 0 THEN {<<>>} ELSE {Append(s, x) : s \in SeqsOfLen(S, n - 1), x \in S}

SeqsUpTo(S, n) == UNION {SeqsOfLen(S, k) : k \in 0..n}

SourceInputs == {Item("Self_", <<>>, <<>>), Item("Hash", OddStr, <<>>)}

PluginInputs == {Item("Plugin", PlainStr, PlainStr), Item("Plugin", <<>>, OddStr)}

SandboxInputs == {Item("Scripts", <<>>, <<>>), Item("Forms", <<>>, <<>>)}

StrInputs == {Str(s) : s \in Strs}

Directives ==
  {Directive(k, a) : k \in SourcesKinds, a \in SeqsUpTo(SourceInputs, MaxItems)}
    \cup {Directive(k, <<>>) : k \in BareKinds}
    \cup {Directive("PluginTypes", a) : a \in SeqsUpTo(PluginInputs, MaxItems)}
    \cup {Directive("ReportTo", <<x>>) : x \in StrInputs}
    \cup {Directive("ReportUri", a) : a \in SeqsUpTo(StrInputs, MaxItems)}
    \cup {Directive("RequireSriFor", <<x>>) : x \in SriFor}
    \cup {Directive("Sandbox", a) : a \in SeqsUpTo(SandboxInputs, MaxItems)}
    \cup {Directive("TrustedTypes", a) : a \in SeqsUpTo(StrInputs, MaxItems)}

(* The directives appended to an existing policy: one of each collection   *)
(* type left empty, and one report-uri holding an odd string.              *)
PushDirectives ==
  {Directive("ImgSrc", <<>>), Directive("PluginTypes", <<>>),
   Directive("ReportUri", <<>>), Directive("TrustedTypes", <<>>),
   Directive("ReportUri", <<Str(OddStr)>>)}

(***************************************************************************)
(* The state: one policy, the last call made on it and what it returned.   *)
(***************************************************************************)
VARIABLES csp, op, arg, ret

vars == <<csp, op, arg, ret>>

(* The return value of a call that renders nothing. *)
NoRet == [status |-> "None", out |-> <<>>]

Init ==
  /\ ret = NoRet
  /\ \/ csp = CSP_new /\ op = "new" /\ arg = <<>>
     \/ \E d \in Directives : csp = CSP_new_with(d) /\ op = "new_with" /\ arg = <<d>>
     \/ \E d \in PushDirectives : csp = Directive_into(d) /\ op = "into" /\ arg = <<d>>

push(d) ==
  /\ Len(csp) < MaxDirectives
  /\ csp' = CSP_push(csp, d)
  /\ op' = "push" /\ arg' = <<d>> /\ ret' = NoRet

push_borrowed(d) ==
  /\ Len(csp) < MaxDirectives
  /\ csp' = CSP_push_borrowed(csp, d)
  /\ op' = "push_borrowed" /\ arg' = <<d>> /\ ret' = NoRet

add(d) ==
  /\ Len(csp) < MaxDirectives
  /\ csp' = CSP_add(csp, d)
  /\ op' = "add" /\ arg' = <<d>> /\ ret' = NoRet

add_borrowed(d) ==
  /\ Len(csp) < MaxDirectives
  /\ csp' = CSP_add_borrowed(csp, d)
  /\ op' = "add_borrowed" /\ arg' = <<d>> /\ ret' = NoRet

(* A rendering that moves the first directive to the end as it writes. *)
fmt_rotating ==
  /\ ret' = CSP_fmt(csp)
  /\ op' = "fmt" /\ arg' = <<>>
  /\ csp' = IF Len(csp) = 0 THEN csp ELSE Append(Tail(csp), Head(csp))

(* A rendering that consumes the policy. *)
fmt_consuming ==
  /\ ret' = CSP_fmt(csp)
  /\ op' = "fmt" /\ arg' = <<>>
  /\ csp' = CSP_new

(* Display::fmt on the policy. *)
fmt ==
  /\ ret' = CSP_fmt(csp)
  /\ op' = "fmt" /\ arg' = <<>>
  /\ UNCHANGED csp

(* Display::fmt on (a clone of) the directive the last call was given. *)
fmt_directive ==
  /\ arg # <<>>
  /\ ret' = Directive_fmt(arg[1])
  /\ op' = "fmt_directive"
  /\ UNCHANGED <<csp, arg>>

Next ==
  \/ \E d \in PushDirectives : push(d)
  \/ \E d \in PushDirectives : push_borrowed(d)
  \/ \E d \in PushDirectives : add(d)
  \/ \E d \in PushDirectives : add_borrowed(d)
  \/ fmt
  \/ fmt_directive

Spec == Init /\ [][Next]_vars

TypeOK ==
  /\ Len(csp) <= MaxDirectives
  /\ ret.status \in {"None", "Ok", "Panic"}


(***************************************************************************)
(* The Display implementations applied to single values.  A value is       *)
(* built (Init), then rendered once: op names its type, arg holds it, ret  *)
(* the result.  Sources, Plugins and SandboxAllowedList range over every   *)
(* element value, in lists of at most MaxItems elements.                   *)
(***************************************************************************)
PluginValues == {Item("Plugin", s, t) : s \in Strs, t \in Strs}

DirectiveValues ==
  Directives
    \cup {Directive("PluginTypes", a) : a \in SeqsUpTo(PluginValues, MaxItems)}
    \cup {Directive("Sandbox", a) : a \in SeqsUpTo(SandboxAllow, MaxItems)}

InitValues ==
  /\ csp = CSP_new
  /\ ret = NoRet
  /\ \/ \E s \in Source : op = "Source" /\ arg = <<s>>
     \/ \E v \in SeqsUpTo(Source, MaxItems) : op = "Sources" /\ arg = <<v>>
     \/ \E s \in SandboxAllow : op = "SandboxAllow" /\ arg = <<s>>
     \/ \E s \in SriFor : op = "SriFor" /\ arg = <<s>>
     \/ \E d \in DirectiveValues : op = "Directive" /\ arg = <<d>>

display_Source ==
  /\ op = "Source"
  /\ ret' = Source_fmt(arg[1])
  /\ op' = "Source_fmt"
  /\ UNCHANGED <<csp, arg>>

display_Sources ==
  /\ op = "Sources"
  /\ ret' = Sources_fmt(arg[1])
  /\ op' = "Sources_fmt"
  /\ UNCHANGED <<csp, arg>>

display_SandboxAllow ==
  /\ op = "SandboxAllow"
  /\ ret' = SandboxAllow_fmt(arg[1])
  /\ op' = "SandboxAllow_fmt"
  /\ UNCHANGED <<csp, arg>>

display_SriFor ==
  /\ op = "SriFor"
  /\ ret' = SriFor_fmt(arg[1])
  /\ op' = "SriFor_fmt"
  /\ UNCHANGED <<csp, arg>>

display_Directive ==
  /\ op = "Directive"
  /\ ret' = Directive_fmt(arg[1])
  /\ op' = "Directive_fmt"
  /\ UNCHANGED <<csp, arg>>

NextValues ==
  \/ display_Source
  \/ display_Sources
  \/ display_SandboxAllow
  \/ display_SriFor
  \/ display_Directive

SpecValues == InitValues /\ [][NextValues]_vars

(***************************************************************************)
(* The collection wrappers and their methods.  Each wrapper is a Vec that  *)
(* only its own methods reach: of the crate root (lib.rs) Sources,         *)
(* Plugins, SandboxAllowedList and ReportUris, and of the modular files    *)
(* plugin.rs, report_uri.rs and trusted_type.rs the Plugins, ReportUris    *)
(* and TrustedTypes that have neither new() nor Default.                   *)
(***************************************************************************)
(* Err(fmt::Error). *)
Err == [status |-> "Err", out |-> <<>>]

(* impl Sources (lib.rs). *)
Sources_new == <<>>

Sources_new_with(source) == <<source>>

(* push_borrowed that starts the list over with the new source. *)
Sources_push_borrowed_replacing(self, source) == <<source>>

Sources_push_borrowed(self, source) == Append(self, source)

Sources_add_borrowed(self, source) == Sources_push_borrowed(self, source)

Sources_push(self, source) == Append(self, source)

(* add that puts the source first. *)
Sources_add_front(self, source) == <<source>> \o self

Sources_add(self, source) == Sources_push(self, source)

(* impl Plugins (lib.rs). *)
Plugins_new == <<>>

Plugins_new_with(plugin) == <<plugin>>

Plugins_push_borrowed(self, plugin) == Append(self, plugin)

Plugins_add_borrowed(self, plugin) == Plugins_push_borrowed(self, plugin)

Plugins_push(self, plugin) == Append(self, plugin)

Plugins_add(self, plugin) == Plugins_push(self, plugin)

(* impl SandboxAllowedList (lib.rs). *)
SandboxAllowedList_new == <<>>

SandboxAllowedList_new_with(sandbox_allow) == <<sandbox_allow>>

SandboxAllowedList_push_borrowed(self, sandbox_allow) == Append(self, sandbox_allow)

SandboxAllowedList_add_borrowed(self, sandbox_allow) == SandboxAllowedList_push_borrowed(self, sandbox_allow)

SandboxAllowedList_push(self, sandbox_allow) == Append(self, sandbox_allow)

SandboxAllowedList_add(self, sandbox_allow) == SandboxAllowedList_push(self, sandbox_allow)

(* impl ReportUris (lib.rs). *)
ReportUris_new == <<>>

ReportUris_new_with(report_uri) == <<report_uri>>

ReportUris_push_borrowed(self, report_uri) == Append(self, report_uri)

ReportUris_add_borrowed(self, report_uri) == ReportUris_push_borrowed(self, report_uri)

ReportUris_push(self, report_uri) == Append(self, report_uri)

ReportUris_add(self, report_uri) == ReportUris_push(self, report_uri)

(* impl Plugins and its Display (plugin.rs). *)
plugin_Plugins_new_with(plugin) == <<plugin>>

plugin_Plugins_add_borrowed(self, plugin) == Append(self, plugin)

plugin_Plugins_add(self, plugin) == Append(self, plugin)

plugin_Plugins_get(self) == self

plugin_Plugins_fmt(self) ==
  IF Len(self) < 1 THEN Err
  ELSE Then(ForEach([i \in 1..(Len(self) - 1) |-> Ok(self[i].a \o <<"/">> \o self[i].b \o <<" ">>)], 1),
            Ok(self[Len(self)].a \o <<"/">> \o self[Len(self)].b))

(* impl ReportUris and its Display (report_uri.rs). *)
report_uri_ReportUris_new_with(uri) == <<uri>>

report_uri_ReportUris_add_borrowed(self, uri) == Append(self, uri)

report_uri_ReportUris_add(self, uri) == Append(self, uri)

report_uri_ReportUris_get(self) == self

report_uri_ReportUris_fmt(self) ==
  IF Len(self) < 1 THEN Err
  ELSE Then(ForEach([i \in 1..(Len(self) - 1) |-> Ok(self[i].a \o <<" ">>)], 1),
            Ok(self[Len(self)].a))

(* impl TrustedTypes and its Display (trusted_type.rs). *)
(* new_with that drops its argument. *)
trusted_type_TrustedTypes_new_with_empty(trusted_type) == <<>>

trusted_type_TrustedTypes_new_with(trusted_type) == <<trusted_type>>

trusted_type_TrustedTypes_add_borrowed(self, trusted_type) == Append(self, trusted_type)

trusted_type_TrustedTypes_add(self, trusted_type) == Append(self, trusted_type)

trusted_type_TrustedTypes_get(self) == self

trusted_type_TrustedTypes_fmt(self) ==
  IF Len(self) < 1 THEN Err
  ELSE Then(ForEach([i \in 1..(Len(self) - 1) |-> Ok(self[i].a \o <<" ">>)], 1),
            Ok(self[Len(self)].a))

(***************************************************************************)
(* The methods applied to one collection.  arg[1] is the receiver, a       *)
(* record of the type it was built as and of the elements it holds;        *)
(* arg[2] is the argument of the last call, op that call and ret what      *)
(* Display returned.  The policy itself is one of the collections: CSP     *)
(* wraps a Vec of directives behind the same six methods.                  *)
(***************************************************************************)
ModularTypes == {"plugin::Plugins", "report_uri::ReportUris", "trusted_type::TrustedTypes"}

RootTypes == {"CSP", "Sources", "Plugins", "SandboxAllowedList", "ReportUris"}

WrapperTypes == RootTypes \cup ModularTypes

Wrapper(type, items) == [type |-> type, items |-> items]

(* The values handed to the methods of each type. *)
Elements(type) ==
  CASE type = "CSP" -> PushDirectives
    [] type = "Sources" -> SourceInputs
    [] type \in {"Plugins", "plugin::Plugins"} -> PluginInputs
    [] type = "SandboxAllowedList" -> SandboxInputs
    [] type \in {"ReportUris", "report_uri::ReportUris", "trusted_type::TrustedTypes"} ->
         StrInputs

Wrapper_new(type) ==
  CASE type = "CSP" -> CSP_new
    [] type = "Sources" -> Sources_new
    [] type = "Plugins" -> Plugins_new
    [] type = "SandboxAllowedList" -> SandboxAllowedList_new
    [] type = "ReportUris" -> ReportUris_new

Wrapper_new_with(type, x) ==
  CASE type = "CSP" -> CSP_new_with(x)
    [] type = "Sources" -> Sources_new_with(x)
    [] type = "Plugins" -> Plugins_new_with(x)
    [] type = "SandboxAllowedList" -> SandboxAllowedList_new_with(x)
    [] type = "ReportUris" -> ReportUris_new_with(x)
    [] type = "plugin::Plugins" -> plugin_Plugins_new_with(x)
    [] type = "report_uri::ReportUris" -> report_uri_ReportUris_new_with(x)
    [] type = "trusted_type::TrustedTypes" -> trusted_type_TrustedTypes_new_with(x)

Wrapper_push(type, self, x) ==
  CASE type = "CSP" -> CSP_push(self, x)
    [] type = "Sources" -> Sources_push(self, x)
    [] type = "Plugins" -> Plugins_push(self, x)
    [] type = "SandboxAllowedList" -> SandboxAllowedList_push(self, x)
    [] type = "ReportUris" -> ReportUris_push(self, x)

Wrapper_push_borrowed(type, self, x) ==
  CASE type = "CSP" -> CSP_push_borrowed(self, x)
    [] type = "Sources" -> Sources_push_borrowed(self, x)
    [] type = "Plugins" -> Plugins_push_borrowed(self, x)
    [] type = "SandboxAllowedList" -> SandboxAllowedList_push_borrowed(self, x)
    [] type = "ReportUris" -> ReportUris_push_borrowed(self, x)

Wrapper_add(type, self, x) ==
  CASE type = "CSP" -> CSP_add(self, x)
    [] type = "Sources" -> Sources_add(self, x)
    [] type = "Plugins" -> Plugins_add(self, x)
    [] type = "SandboxAllowedList" -> SandboxAllowedList_add(self, x)
    [] type = "ReportUris" -> ReportUris_add(self, x)
    [] type = "plugin::Plugins" -> plugin_Plugins_add(self, x)
    [] type = "report_uri::ReportUris" -> report_uri_ReportUris_add(self, x)
    [] type = "trusted_type::TrustedTypes" -> trusted_type_TrustedTypes_add(self, x)

Wrapper_add_borrowed(type, self, x) ==
  CASE type = "CSP" -> CSP_add_borrowed(self, x)
    [] type = "Sources" -> Sources_add_borrowed(self, x)
    [] type = "Plugins" -> Plugins_add_borrowed(self, x)
    [] type = "SandboxAllowedList" -> SandboxAllowedList_add_borrowed(self, x)
    [] type = "ReportUris" -> ReportUris_add_borrowed(self, x)
    [] type = "plugin::Plugins" -> plugin_Plugins_add_borrowed(self, x)
    [] type = "report_uri::ReportUris" -> report_uri_ReportUris_add_borrowed(self, x)
    [] type = "trusted_type::TrustedTypes" -> trusted_type_TrustedTypes_add_borrowed(self, x)

Wrapper_get(type, self) ==
  CASE type = "plugin::Plugins" -> plugin_Plugins_get(self)
    [] type = "report_uri::ReportUris" -> report_uri_ReportUris_get(self)
    [] type = "trusted_type::TrustedTypes" -> trusted_type_TrustedTypes_get(self)

(* Display of the collection.  ReportUris of lib.rs has no Display of its  *)
(* own: it is written by the ReportUri arm of Display for Directive.       *)
Wrapper_fmt(type, self) ==
  CASE type = "CSP" -> CSP_fmt(self)
    [] type = "Sources" -> Sources_fmt(self)
    [] type = "Plugins" -> Plugins_fmt(self)
    [] type = "SandboxAllowedList" -> SandboxAllowedList_fmt(self)
    [] type = "ReportUris" -> Directive_fmt(Directive("ReportUri", self))
    [] type = "plugin::Plugins" -> plugin_Plugins_fmt(self)
    [] type = "report_uri::ReportUris" -> report_uri_ReportUris_fmt(self)
    [] type = "trusted_type::TrustedTypes" -> trusted_type_TrustedTypes_fmt(self)

InitLists ==
  /\ csp = CSP_new
  /\ ret = NoRet
  /\ \/ \E t \in RootTypes : op = "list_new" /\ arg = <<Wrapper(t, Wrapper_new(t))>>
     \/ \E t \in WrapperTypes : \E x \in Elements(t) :
          op = "list_new_with" /\ arg = <<Wrapper(t, Wrapper_new_with(t, x)), x>>

list_push(x) ==
  /\ arg[1].type \in RootTypes
  /\ Len(arg[1].items) < MaxDirectives
  /\ arg' = <<Wrapper(arg[1].type, Wrapper_push(arg[1].type, arg[1].items, x)), x>>
  /\ op' = "list_push" /\ ret' = NoRet
  /\ UNCHANGED csp

list_push_borrowed(x) ==
  /\ arg[1].type \in RootTypes
  /\ Len(arg[1].items) < MaxDirectives
  /\ arg' = <<Wrapper(arg[1].type, Wrapper_push_borrowed(arg[1].type, arg[1].items, x)), x>>
  /\ op' = "list_push_borrowed" /\ ret' = NoRet
  /\ UNCHANGED csp

list_add(x) ==
  /\ Len(arg[1].items) < MaxDirectives
  /\ arg' = <<Wrapper(arg[1].type, Wrapper_add(arg[1].type, arg[1].items, x)), x>>
  /\ op' = "list_add" /\ ret' = NoRet
  /\ UNCHANGED csp

list_add_borrowed(x) ==
  /\ Len(arg[1].items) < MaxDirectives
  /\ arg' = <<Wrapper(arg[1].type, Wrapper_add_borrowed(arg[1].type, arg[1].items, x)), x>>
  /\ op' = "list_add_borrowed" /\ ret' = NoRet
  /\ UNCHANGED csp

(* get(&self): a shared reference to the elements; the receiver stays. *)
list_get ==
  /\ arg[1].type \in ModularTypes
  /\ arg' = <<Wrapper(arg[1].type, Wrapper_get(arg[1].type, arg[1].items))>>
  /\ op' = "list_get" /\ ret' = NoRet
  /\ UNCHANGED csp

list_fmt ==
  /\ ret' = Wrapper_fmt(arg[1].type, arg[1].items)
  /\ op' = "list_fmt"
  /\ UNCHANGED <<csp, arg>>

NextLists ==
  \/ \E x \in Elements(arg[1].type) : list_push(x)
  \/ \E x \in Elements(arg[1].type) : list_push_borrowed(x)
  \/ \E x \in Elements(arg[1].type) : list_add(x)
  \/ \E x \in Elements(arg[1].type) : list_add_borrowed(x)
  \/ list_get
  \/ list_fmt

SpecLists == InitLists /\ [][NextLists]_vars

(***************************************************************************)
(* Properties.                                                             *)
(***************************************************************************)
AppendOps == {"push", "push_borrowed", "add", "add_borrowed"}

KindCount(c, k) == Cardinality({i \in 1..Len(c) : c[i].kind = k})

KindsOf(c) == {c[i].kind : i \in 1..Len(c)}

HasKind(c, k) == \E i \in 1..Len(c) : c[i].kind = k

IsPrefix(p, s) == Len(p) <= Len(s) /\ SubSeq(s, 1, Len(p)) = p

IsSuffix(p, s) ==
  Len(p) <= Len(s) /\ SubSeq(s, Len(s) - Len(p) + 1, Len(s)) = p

(* ts[i] \o sep \o ts[i+1] \o sep ... \o ts[Len(ts)] *)
RECURSIVE JoinFrom(_, _, _)
JoinFrom(ts, sep, i) ==
  IF i > Len(ts) THEN <<>>
  ELSE IF i = Len(ts) THEN ts[i]
  ELSE ts[i] \o sep \o JoinFrom(ts, sep, i + 1)

(* A directive whose Plugins, ReportUris or TrustedTypes argument is empty. *)
EmptyRequired(d) ==
  d.kind \in {"PluginTypes", "ReportUri", "TrustedTypes"} /\ Len(d.arg) = 0

(* C1 as stated: the policy never contains two directives of the same kind. *)
C1_NoTwoOfAKind ==
  \A i, j \in 1..Len(csp) : i # j => csp[i].kind # csp[j].kind

(* C1 (amended): no append deduplicates.  Every append adds one directive  *)
(* of the appended kind and changes the number of directives of no other   *)
(* kind (a kind in neither policy counts zero in both), so the policy      *)
(* holds two directives of a kind as soon as that kind is appended while   *)
(* present.                                                                *)
C1_AppendsNeverDeduplicate ==
  [][op' \in AppendOps =>
       \A k \in KindsOf(csp) \cup KindsOf(csp') \cup {arg'[1].kind} :
         KindCount(csp', k) =
           KindCount(csp, k) + (IF arg'[1].kind = k THEN 1 ELSE 0)]_vars

(* An append has left the policy with two directives of one kind. *)
C1_Witness ==
  /\ op \in AppendOps
  /\ \E i, j \in 1..Len(csp) : i < j /\ csp[i].kind = csp[j].kind

(* C2 as stated: appending a directive whose kind is present replaces the  *)
(* directive of that kind in place and leaves the length and every other   *)
(* index unchanged.                                                        *)
C2_ReplacesInPlace ==
  [][(op' \in AppendOps /\ HasKind(csp, arg'[1].kind)) =>
       /\ Len(csp') = Len(csp)
       /\ \A i \in 1..Len(csp) :
            csp'[i] = IF csp[i].kind = arg'[1].kind THEN arg'[1] ELSE csp[i]]_vars

(* C2 (amended): appending a directive whose kind is already present at    *)
(* index i leaves index i and every other index unchanged and puts the new *)
(* directive at the end: the length grows by one, and when both policies   *)
(* render, the output before the append is a prefix of the output after    *)
(* it, so the earlier directive of that kind keeps its position.           *)
C2_KeepsEarlierOfKind ==
  [][(op' \in AppendOps /\ HasKind(csp, arg'[1].kind)) =>
       /\ Len(csp') = Len(csp) + 1
       /\ \A i \in 1..Len(csp) : csp'[i] = csp[i]
       /\ csp'[Len(csp')] = arg'[1]
       /\ (CSP_fmt(csp).status = "Ok" /\ CSP_fmt(csp').status = "Ok") =>
            IsPrefix(CSP_fmt(csp).out, CSP_fmt(csp').out)]_vars

(* A directive was appended whose kind was present with other content. *)
C2_Witness ==
  /\ op \in AppendOps
  /\ Len(csp) >= 2
  /\ \E i \in 1..(Len(csp) - 1) :
       csp[i].kind = arg[1].kind /\ csp[i] # arg[1]
  /\ csp[Len(csp)] = arg[1]

(* C3: push and push_borrowed put the directive at the end: the length     *)
(* grows by one, the new directive is last, every earlier directive keeps  *)
(* its index and content, and when the policy renders the output ends with *)
(* the rendering of the new directive.                                     *)
C3_PushAppendsAtEnd ==
  [][op' \in {"push", "push_borrowed"} =>
       /\ Len(csp') = Len(csp) + 1
       /\ csp'[Len(csp')] = arg'[1]
       /\ \A i \in 1..Len(csp) : csp'[i] = csp[i]
       /\ CSP_fmt(csp').status = "Ok" =>
            IsSuffix(Directive_fmt(arg'[1]).out, CSP_fmt(csp').out)]_vars

(* push_borrowed has appended a third directive, of the kind of the first. *)
C3_Witness ==
  /\ op = "push_borrowed"
  /\ Len(csp) = 3
  /\ csp[1].kind = csp[3].kind
  /\ csp[3] = arg[1]

(* C4: a policy with no directive renders as the empty string; a policy of *)
(* n >= 1 directives that render renders as their renderings in order,     *)
(* joined by "; ", with no separator before the first or after the last.   *)
C4_RenderJoinsWithSemicolonSpace ==
  op = "fmt" =>
    /\ Len(csp) = 0 => ret = Ok(<<>>)
    /\ (Len(csp) >= 1 /\ \A i \in 1..Len(csp) : Directive_fmt(csp[i]).status = "Ok") =>
         ret = Ok(JoinFrom([i \in 1..Len(csp) |-> Directive_fmt(csp[i]).out],
                           <<";", " ">>, 1))

(* Three directives have been rendered into one header value. *)
C4_Witness ==
  /\ op = "fmt"
  /\ Len(csp) = 3
  /\ ret.status = "Ok"
  /\ Len(ret.out) > 0

(* C5: rendering PluginTypes with an empty Plugins fails with the          *)
(* empty-collection error.                                                 *)
C5_EmptyPluginsIsAnError ==
  (op = "fmt_directive" /\ arg[1].kind = "PluginTypes" /\ Len(arg[1].arg) = 0) =>
    ret.status = "Err"

(* C6: rendering ReportUri with an empty ReportUris returns the            *)
(* empty-collection error to the caller.                                   *)
C6_EmptyReportUrisIsAnError ==
  (op = "fmt_directive" /\ arg[1].kind = "ReportUri" /\ Len(arg[1].arg) = 0) =>
    ret.status = "Err"

(* C7: rendering TrustedTypes with an empty list returns the               *)
(* empty-collection error to the caller.                                   *)
C7_EmptyTrustedTypesIsAnError ==
  (op = "fmt_directive" /\ arg[1].kind = "TrustedTypes" /\ Len(arg[1].arg) = 0) =>
    ret.status = "Err"

(* C8: when any directive of the policy has an empty Plugins, ReportUris   *)
(* or TrustedTypes argument, rendering the policy ends with the            *)
(* empty-collection error.                                                 *)
C8_EmptyCollectionAbortsPolicy ==
  (op = "fmt" /\ \E i \in 1..Len(csp) : EmptyRequired(csp[i])) =>
    ret.status = "Err"

(* C9: rendering fails only through an empty Plugins, ReportUris or        *)
(* TrustedTypes: a directive, or a policy, in which none of these is empty *)
(* renders, whatever the strings it holds.                                 *)
C9_OnlyEmptyCollectionsFail ==
  /\ (op = "fmt" /\ \A i \in 1..Len(csp) : ~EmptyRequired(csp[i])) =>
       ret.status = "Ok"
  /\ (op = "fmt_directive" /\ ~EmptyRequired(arg[1])) => ret.status = "Ok"

(* A policy holding an empty string, a string of quote, space and          *)
(* semicolon, and an empty Sources has been rendered.                      *)
C9_Witness ==
  /\ op = "fmt"
  /\ Len(csp) = 3
  /\ csp[1] = Directive("ReportUri", <<Str(<<>>), Str(OddStr)>>)
  /\ csp[2] = Directive("ImgSrc", <<>>)
  /\ csp[3] = Directive("ReportUri", <<Str(OddStr)>>)
  /\ ret.status = "Ok"

(* C10: a directive that carries Sources renders, with an empty Sources,   *)
(* as its name, one space and 'none'; so does a policy holding only it.    *)
C10_EmptySourcesRenderNone ==
  /\ (op = "fmt_directive" /\ arg[1].kind \in SourcesKinds /\ Len(arg[1].arg) = 0) =>
       ret = Ok(Directive_name(arg[1].kind) \o <<" ", "'", "n", "o", "n", "e", "'">>)
  /\ (op = "fmt" /\ Len(csp) = 1 /\ csp[1].kind \in SourcesKinds
        /\ Len(csp[1].arg) = 0) =>
       ret = Ok(Directive_name(csp[1].kind) \o <<" ", "'", "n", "o", "n", "e", "'">>)

(* WorkerSrc(Sources::new()) has been rendered. *)
C10_Witness ==
  /\ op = "fmt_directive"
  /\ arg = <<Directive("WorkerSrc", <<>>)>>
  /\ ret.status = "Ok"

(* The number of occurrences of the character c in the text s. *)
CountOf(s, c) == Cardinality({i \in 1..Len(s) : s[i] = c})

(* C11: a non-empty Sources of length n renders as its n source tokens in  *)
(* insertion order joined by single spaces; when no token is empty or      *)
(* holds a space, the text has n - 1 spaces and none first or last.        *)
C11_SourcesJoinWithSpaces ==
  (op = "Sources_fmt" /\ Len(arg[1]) >= 1) =>
    LET v == arg[1]
        toks == [i \in 1..Len(v) |-> Source_fmt(v[i]).out]
    IN  /\ ret = Ok(JoinFrom(toks, <<" ">>, 1))
        /\ (\A i \in 1..Len(v) : toks[i] # <<>> /\ CountOf(toks[i], " ") = 0) =>
             /\ CountOf(ret.out, " ") = Len(v) - 1
             /\ ret.out[1] # " "
             /\ ret.out[Len(ret.out)] # " "

(* Sources of a hash and a nonce, in that order, have been rendered. *)
C11_Witness ==
  /\ op = "Sources_fmt"
  /\ arg[1] = <<Item("Hash", PlainStr, PlainStr), Item("Nonce", PlainStr, <<>>)>>
  /\ ret.status = "Ok"

(* C12: Sandbox with an empty list renders as exactly "sandbox"; with a    *)
(* non-empty list as "sandbox " and the tokens of the list in insertion    *)
(* order joined by single spaces.                                          *)
C12_SandboxBareWhenEmpty ==
  (op = "Directive_fmt" /\ arg[1].kind = "Sandbox") =>
    LET v == arg[1].arg
        toks == [i \in 1..Len(v) |-> SandboxAllow_fmt(v[i]).out]
    IN  IF Len(v) = 0
        THEN ret = Ok(<<"s", "a", "n", "d", "b", "o", "x">>)
        ELSE ret = Ok(<<"s", "a", "n", "d", "b", "o", "x">> \o <<" ">> \o JoinFrom(toks, <<" ">>, 1))

(* Sandbox(SandboxAllowedList::new()) has been rendered. *)
C12_Witness ==
  /\ op = "Directive_fmt"
  /\ arg[1] = Directive("Sandbox", <<>>)
  /\ ret.status = "Ok"

(* C14: a non-empty Plugins renders each pair as type/subtype, joined by   *)
(* single spaces in insertion order, after "plugin-types ".                *)
C14_PluginsRenderTypeSlashSubtype ==
  (op = "Directive_fmt" /\ arg[1].kind = "PluginTypes" /\ Len(arg[1].arg) >= 1) =>
    LET v == arg[1].arg
        pairs == [i \in 1..Len(v) |-> v[i].a \o <<"/">> \o v[i].b]
    IN  ret = Ok(<<"p", "l", "u", "g", "i", "n", "-", "t", "y", "p", "e", "s">> \o <<" ">> \o JoinFrom(pairs, <<" ">>, 1))

(* PluginTypes of two different pairs has been rendered. *)
C14_Witness ==
  /\ op = "Directive_fmt"
  /\ arg[1] = Directive("PluginTypes",
                        <<Item("Plugin", PlainStr, OddStr), Item("Plugin", <<>>, PlainStr)>>)
  /\ ret.status = "Ok"

C13_RenderLeavesPolicyOpen ==
  [][/\ op' = "fmt" =>
          /\ csp' = csp
          /\ (ret'.status = "Ok") <=>
               (\A i \in 1..Len(csp) : Directive_fmt(csp[i]).status = "Ok")
          /\ ret'.status = "Ok" =>
               ret'.out = JoinFrom([i \in 1..Len(csp) |-> Directive_fmt(csp[i]).out],
                                   <<";", " ">>, 1)
     /\ (op = "fmt" /\ op' \in AppendOps) => csp' = Append(csp, arg'[1])]_vars

(* A policy that rendered with one directive was appended to, and the      *)
(* render of the two directives failed on the new one.                     *)
C13_Witness ==
  /\ op = "fmt"
  /\ Len(csp) = 2
  /\ Directive_fmt(csp[1]).status = "Ok"
  /\ csp[2] = Directive("ReportUri", <<>>)
  /\ ret.status = "Panic"

(* C16: every Source renders, and renders verbatim.  Host(s) is s          *)
(* unchanged, Scheme(s) is s followed by a colon, Nonce(s) is 'nonce-s',   *)
(* Hash((algo, digest)) is 'algo-digest', and each keyword variant         *)
(* (WasmUnsafeEval among them) is its own fixed literal between single     *)
(* quotes; quotes, spaces and semicolons inside s are passed through.      *)
C16_SourceTokensRenderVerbatim ==
  op = "Source_fmt" =>
    LET s == arg[1] IN
      /\ ret.status = "Ok"
      /\ s.tag = "Host" => ret.out = s.a
      /\ s.tag = "Scheme" => ret.out = s.a \o <<":">>
      /\ s.tag = "Nonce" =>
           ret.out = <<"'", "n", "o", "n", "c", "e", "-">> \o s.a \o <<"'">>
      /\ s.tag = "Hash" => ret.out = <<"'">> \o s.a \o <<"-">> \o s.b \o <<"'">>
      /\ s.tag \in SourceKeywords =>
           /\ ret.out = <<"'">> \o Kebab(s.tag) \o <<"'">>
           /\ CountOf(ret.out, "'") = 2
      /\ s.tag = "WasmUnsafeEval" =>
           ret.out = <<"'", "w", "a", "s", "m", "-", "u", "n", "s", "a", "f", "e",
                       "-", "e", "v", "a", "l", "'">>

(* A hash whose algorithm holds a quote, a space and a semicolon was       *)
(* rendered with them in place.                                            *)
C16_Witness ==
  /\ op = "Source_fmt"
  /\ arg[1] = Item("Hash", OddStr, PlainStr)
  /\ ret = Ok(<<"'", "'", " ", ";", "-", "x", "'">>)

(* What Display writes for the argument of an argument-carrying directive. *)
ArgumentRendering(d) ==
  CASE d.kind \in SourcesKinds -> Sources_fmt(d.arg)
    [] d.kind = "PluginTypes" -> Plugins_fmt(d.arg)
    [] d.kind = "ReportTo" -> Ok(d.arg[1].a)
    [] d.kind = "RequireSriFor" -> SriFor_fmt(d.arg[1])
    [] d.kind = "Sandbox" -> SandboxAllowedList_fmt(d.arg)
    [] d.kind \in {"ReportUri", "TrustedTypes"} ->
         IF Len(d.arg) = 0 THEN Panic
         ELSE Ok(JoinFrom([i \in 1..Len(d.arg) |-> d.arg[i].a], <<" ">>, 1))

(* C17 as stated: every argument-carrying directive that renders does so   *)
(* as its kebab-case name, one space, and the rendering of its argument.   *)
C17_NameSpaceArgumentAlways ==
  (op = "Directive_fmt" /\ arg[1].kind \notin BareKinds /\ ret.status = "Ok") =>
    ret.out = Kebab(arg[1].kind) \o <<" ">> \o ArgumentRendering(arg[1]).out

(* C17: every argument-carrying directive other than a Sandbox with an     *)
(* empty list renders as its kebab-case name, one space, and the rendering *)
(* of its argument; a Sandbox with an empty list renders as the bare name  *)
(* without the space; the name is a function of the variant alone; and the *)
(* only renderings that do not return are those of an empty ReportUri or   *)
(* TrustedTypes list, which panic.                                         *)
C17_NameSpaceArgumentUnlessEmptySandbox ==
  (op = "Directive_fmt" /\ arg[1].kind \notin BareKinds) =>
    LET d == arg[1]
        r == ArgumentRendering(d)
    IN  /\ (d.kind = "Sandbox" /\ Len(d.arg) = 0) => ret = Ok(Kebab(d.kind))
        /\ ~(d.kind = "Sandbox" /\ Len(d.arg) = 0) =>
             /\ ret.status = r.status
             /\ ret.status = "Ok" => ret.out = Kebab(d.kind) \o <<" ">> \o r.out
        /\ (ret.status # "Ok") <=>
             (d.kind \in {"ReportUri", "TrustedTypes"} /\ Len(d.arg) = 0)

(* RequireSriFor(ScriptStyle) has been rendered as name, space, argument. *)
C17_Witness ==
  /\ op = "Directive_fmt"
  /\ arg[1] = Directive("RequireSriFor", <<Item("ScriptStyle", <<>>, <<>>)>>)
  /\ ret = Ok(<<"r", "e", "q", "u", "i", "r", "e", "-", "s", "r", "i", "-", "f", "o", "r",
                " ", "s", "c", "r", "i", "p", "t", " ", "s", "t", "y", "l", "e">>)

(* C18: BlockAllMixedContent and UpgradeInsecureRequests render as exactly *)
(* "block-all-mixed-content" and "upgrade-insecure-requests", with nothing *)
(* after the name.                                                         *)
C18_BareDirectivesRenderNameOnly ==
  op = "Directive_fmt" =>
    /\ arg[1].kind = "BlockAllMixedContent" =>
         ret = Ok(<<"b", "l", "o", "c", "k", "-", "a", "l", "l", "-", "m", "i", "x", "e", "d",
                    "-", "c", "o", "n", "t", "e", "n", "t">>)
    /\ arg[1].kind = "UpgradeInsecureRequests" =>
         ret = Ok(<<"u", "p", "g", "r", "a", "d", "e", "-", "i", "n", "s", "e", "c", "u", "r",
                    "e", "-", "r", "e", "q", "u", "e", "s", "t", "s">>)

(* UpgradeInsecureRequests has been rendered, ending in the name's last    *)
(* letter.                                                                 *)
C18_Witness ==
  /\ op = "Directive_fmt"
  /\ arg[1] = Directive("UpgradeInsecureRequests", <<>>)
  /\ ret.status = "Ok"
  /\ ret.out[Len(ret.out)] = "s"

(* C19 as stated: SandboxAllow has exactly twelve tokens. *)
C19_TwelveTokens ==
  op = "SandboxAllow_fmt" =>
    Cardinality({s \in SandboxAllow : SandboxAllow_fmt(s).status = "Ok"}) = 12

(* C19: SandboxAllow is an enumeration of exactly thirteen tokens; each    *)
(* renders to one fixed text, "allow-" and the variant's name in           *)
(* kebab-case, and no two tokens render to the same text.                  *)
C19_ThirteenTokensFixedText ==
  op = "SandboxAllow_fmt" =>
    /\ arg[1] \in SandboxAllow
    /\ Cardinality(SandboxAllow) = 13
    /\ ret = Ok(<<"a", "l", "l", "o", "w", "-">> \o Kebab(arg[1].tag))
    /\ \A t \in SandboxAllow : t # arg[1] => SandboxAllow_fmt(t) # ret
    /\ Cardinality({SandboxAllow_fmt(t) : t \in SandboxAllow}) = 13

(* The longest token, TopNavigationByUserActivation, has been rendered. *)
C19_Witness ==
  /\ op = "SandboxAllow_fmt"
  /\ arg[1].tag = "TopNavigationByUserActivation"
  /\ ret.status = "Ok"
  /\ Len(ret.out) = 39

(* C20: CSP::new() yields a policy with zero directives, CSP::new_with(d)  *)
(* a policy holding exactly the one directive d, and converting a          *)
(* Directive into a CSP the same policy as CSP::new_with on it.            *)
C20_ConstructorsSeedExactly ==
  /\ op = "new" => Len(csp) = 0
  /\ op = "new_with" => csp = <<arg[1]>>
  /\ op = "into" =>
       /\ csp = CSP_new_with(arg[1])
       /\ Len(csp) = 1
       /\ csp[1] = arg[1]

(* A report-uri directive has been converted into a policy. *)
C20_Witness ==
  /\ op = "into"
  /\ csp = <<Directive("ReportUri", <<Str(OddStr)>>)>>

C23_SriForRendersFixedWords ==
  LET script == <<"s", "c", "r", "i", "p", "t">>
      style == <<"s", "t", "y", "l", "e">>
      text(s) == CASE s.tag = "Script" -> script
                   [] s.tag = "Style" -> style
                   [] s.tag = "ScriptStyle" -> script \o <<" ">> \o style
  IN  /\ op = "SriFor_fmt" => ret = Ok(text(arg[1]))
      /\ (op = "Directive_fmt" /\ arg[1].kind = "RequireSriFor") =>
           ret = Ok(<<"r", "e", "q", "u", "i", "r", "e", "-", "s", "r", "i", "-", "f", "o", "r", " ">>
                    \o text(arg[1].arg[1]))

(* ScriptStyle has been rendered on its own, as two words. *)
C23_Witness ==
  /\ op = "SriFor_fmt"
  /\ arg[1].tag = "ScriptStyle"
  /\ ret.status = "Ok"
  /\ CountOf(ret.out, " ") = 1

(* C24: ReportTo carries one string s and renders as exactly "report-to "  *)
(* followed by s unchanged, for every s, the empty string included.        *)
C24_ReportToRendersStringVerbatim ==
  (op = "Directive_fmt" /\ arg[1].kind = "ReportTo") =>
    /\ Len(arg[1].arg) = 1
    /\ ret = Ok(<<"r", "e", "p", "o", "r", "t", "-", "t", "o", " ">> \o arg[1].arg[1].a)

(* ReportTo of the empty string has been rendered: the name and the space. *)
C24_Witness ==
  /\ op = "Directive_fmt"
  /\ arg[1] = Directive("ReportTo", <<Str(<<>>)>>)
  /\ ret.status = "Ok"
  /\ Len(ret.out) = 10

(* C25: rendering never panics.  Whatever policy or directive built        *)
(* through the public API is rendered, the call returns a value, a string  *)
(* or an error, and never aborts on a slice out of range or on an          *)
(* underflow of len() - 1.                                                 *)
C25_RenderNeverPanics ==
  op \in {"fmt", "fmt_directive"} => ret.status \in {"Ok", "Err"}

(* C26: rendering is compositional over push.  When a policy c renders     *)
(* and a directive d renders, the policy after push(d) renders as the      *)
(* rendering of d when c was empty, and otherwise as the rendering of c,   *)
(* "; " and the rendering of d.                                            *)
C26_RenderComposesOverPush ==
  [][op' = "push" =>
       LET d == arg'[1]
           rc == CSP_fmt(csp)
           rd == Directive_fmt(d)
       IN  (rc.status = "Ok" /\ rd.status = "Ok") =>
             CSP_fmt(csp') = Ok(IF Len(csp) = 0 THEN rd.out
                                ELSE rc.out \o <<";", " ">> \o rd.out)]_vars

(* A directive was pushed onto a policy of two, and all three render. *)
C26_Witness ==
  /\ op = "push"
  /\ Len(csp) = 3
  /\ CSP_fmt(csp).status = "Ok"
  /\ csp[3] = arg[1]

(* A caller string that is not empty and holds no space. *)
StrOK(s) == s # <<>> /\ CountOf(s, " ") = 0

(* The strings the caller put into one element of a collection. *)
ItemOK(x) ==
  CASE x.tag \in {"Host", "Scheme", "Nonce", "Str"} -> StrOK(x.a)
    [] x.tag \in {"Hash", "Plugin"} -> StrOK(x.a) /\ StrOK(x.b)
    [] OTHER -> TRUE

CallerStringsOK(c) ==
  \A i \in 1..Len(c) : \A j \in 1..Len(c[i].arg) : ItemOK(c[i].arg[j])

(* No space first, last, doubled or directly before a semicolon. *)
NoStraySpace(t) ==
  \/ t = <<>>
  \/ /\ t[1] # " "
     /\ t[Len(t)] # " "
     /\ \A i \in 1..(Len(t) - 1) : ~(t[i] = " " /\ t[i + 1] \in {" ", ";"})

(* C27: every successfully rendered policy matches the output grammar:     *)
(* given caller strings that are not empty and hold no space, the text has *)
(* no leading space, no trailing space, no two consecutive spaces and no   *)
(* space directly before a ";".                                            *)
C27_RenderedPolicyMatchesGrammar ==
  (op = "fmt" /\ ret.status = "Ok" /\ CallerStringsOK(csp)) => NoStraySpace(ret.out)

(* The kinds whose name the text t starts with, as a whole word. *)
KindsNamedBy(t) ==
  {k \in DirectiveKinds :
     t = Directive_name(k) \/ IsPrefix(Directive_name(k) \o <<" ">>, t)}

(* C30: the directive-name mapping is injective.  No two Directive         *)
(* variants have the same name, and the name a rendered directive starts   *)
(* with is the name of its own variant and of no other.                    *)
C30_DirectiveNamesInjective ==
  (op = "Directive_fmt" /\ ret.status = "Ok") =>
    /\ \A k \in DirectiveKinds :
         k # arg[1].kind => Directive_name(k) # Directive_name(arg[1].kind)
    /\ KindsNamedBy(ret.out) = {arg[1].kind}

(* A script-src-attr directive, whose name extends the name script-src,    *)
(* has been rendered.                                                      *)
C30_Witness ==
  /\ op = "Directive_fmt"
  /\ arg[1].kind = "ScriptSrcAttr"
  /\ Len(arg[1].arg) = 1
  /\ ret.status = "Ok"

ListAppendOps == {"list_push", "list_push_borrowed", "list_add", "list_add_borrowed"}

(* C22: the collection wrappers are append-only.  Over every step of every *)
(* public method, a Sources, Plugins, ReportUris, SandboxAllowedList or    *)
(* TrustedTypes keeps its type, never gets shorter, and keeps the elements *)
(* it had, with their content, in the same places: the old element         *)
(* sequence is a prefix of the new one; an append adds exactly one.        *)
C22_WrappersAppendOnly ==
  [][arg[1].type # "CSP" =>
       /\ arg'[1].type = arg[1].type
       /\ Len(arg'[1].items) >= Len(arg[1].items)
       /\ IsPrefix(arg[1].items, arg'[1].items)
       /\ op' \in ListAppendOps => Len(arg'[1].items) = Len(arg[1].items) + 1]_vars

(* A Sources holding two different sources got a third through            *)
(* push_borrowed, the first two still in their places.                     *)
C22_Witness ==
  /\ op = "list_push_borrowed"
  /\ arg[1].type = "Sources"
  /\ Len(arg[1].items) = 3
  /\ arg[1].items[1] # arg[1].items[2]
  /\ arg[1].items[3] = arg[2]

C29_AppendEntryPointsAgree ==
  [][/\ arg[1].type \in RootTypes =>
          \A x \in Elements(arg[1].type) :
            LET t == arg[1].type
                self == arg[1].items
            IN  /\ Wrapper_push(t, self, x) = Append(self, x)
                /\ Wrapper_push_borrowed(t, self, x) = Append(self, x)
                /\ Wrapper_add(t, self, x) = Append(self, x)
                /\ Wrapper_add_borrowed(t, self, x) = Append(self, x)
     /\ (arg[1].type \in RootTypes /\ op' \in ListAppendOps) =>
          arg'[1].items = Append(arg[1].items, arg'[2])
     /\ op' = "list_fmt" => ret' = Wrapper_fmt(arg'[1].type, arg'[1].items)]_vars

(* A policy of three directives whose last one came in through the         *)
(* deprecated add.                                                         *)
C29_Witness ==
  /\ op = "list_add"
  /\ arg[1].type = "CSP"
  /\ Len(arg[1].items) = 3
  /\ arg[1].items[3] = arg[2]

=============================================================================
